---- MODULE Spec2Model ----
(***************************************************************************)
(* gbvm-benchmark: symbol table (.noi) -> function regions -> call-stack   *)
(* tracker driven by (pc, bank, time) observations -> speedscope events    *)
(* -> per-window duration report.  Modelled from src/src/gbvm-benchmark.js *)
(*                                                                         *)
(* Conventions                                                             *)
(*   - a JS string is a sequence of one-character strings, so that the     *)
(*     two regular-expression replacements of parseNoi are computed;       *)
(*   - a .noi line is the pair (symbol, fullAddr) of a DEF line that       *)
(*     passed the textual filters of parseNoi (lines 46-54), fullAddr      *)
(*     being the value parseInt(addrStr, 16) returns;                      *)
(*   - JS `undefined` for a region is the record Undefined, whose symbol   *)
(*     differs from every JS string;                                       *)
(*   - JS arrays are 1-based sequences; indices stored in data (frame      *)
(*     indices, indent) keep their 0-based JS value.                       *)
(***************************************************************************)
EXTENDS Integers, Sequences, FiniteSets, TLC

VARIABLES
    noiData,          \* the DEF lines of the .noi file (input)
    noiLookup,        \* line 132
    functionRegions,  \* line 133
    regionsByBank,    \* line 134
    noiIndex,         \* line 135
    currentFnRegion,  \* line 137
    fnStack,          \* line 165
    events,           \* speedscope.profiles[0].events, line 179
    endValue,         \* speedscope.profiles[0].endValue, line 178
    clock,            \* value of getGBTime(), line 202
    cpuPc,            \* gb.cpu.r.pc, line 213
    romBankNumber,    \* gb.cpu.memory.mbc.romBankNumber, line 222
    phase,            \* "boot" (before line 139), "run" (main loop), "done",
                      \* "failed" (main() rejected, line 505)
    frameStartTime,   \* line 457
    mainAt,           \* where main() is: "loop" (the head of the frame loop,
                      \* line 446, or past it), "frame" (inside
                      \* gb.cpu.frame(), line 459), "report" (past line 460,
                      \* before the logFrameReport of line 479, which
                      \* includes the awaits of lines 465 and 476)
    nObs,             \* number of instructions observed so far
    scenarioPos       \* history: how many observations of the end-to-end
                      \* scenario the run has replayed exactly, or Off

vars == <<noiData, noiLookup, functionRegions, regionsByBank, noiIndex,
          currentFnRegion, fnStack, events, endValue, clock, cpuPc,
          romBankNumber, phase, frameStartTime, mainAt, nObs, scenarioPos>>

-----------------------------------------------------------------------------
(* Bounds of the model *)

MaxObs == 4
MaxTime == 20
MaxLines == 3

(* Program constants *)

AddrMask == 65536          \* fullAddr & 0xffff  (modulus 0x10000)
BankMask == 256            \* (fullAddr >> 16) & 0xff  (modulus 0x100)
LowAreaEnd == 16384        \* 0x4000
Bank0Max == 16383          \* 0x3fff
BankNMax == 32767          \* 0x7fff
InterruptArea == 336       \* pc < 336 is ignored
Infinity == 2147483647     \* JS Infinity: above every time value
NegInfinity == -2147483647 \* JS -Infinity: Math.max() of no arguments
ObjectPrototype == -1      \* what noiIndex["__proto__"] reads: the prototype
                           \* of the plain object noiIndex, not an index
NaN == -2                  \* parseInt("[object Object]", 10)

Min(a, b) == IF a <= b THEN a ELSE b
Max(a, b) == IF a >= b THEN a ELSE b

Undefined == [symbol |-> <<"undefined">>, addr |-> -1, bank |-> -1, end |-> -1]

-----------------------------------------------------------------------------
(* parseNoi, lines 39-77 *)

\* index of the first "$" of s at or after position i, 0 when there is none
RECURSIVE IndexOfDollar(_, _)
IndexOfDollar(s, i) ==
    IF i > Len(s) THEN 0
    ELSE IF s[i] = "$" THEN i
    ELSE IndexOfDollar(s, i + 1)

\* symbol.replace(/^F([^$]+)\$/, ""), line 64
StripFilePrefix(s) ==
    LET d == IndexOfDollar(s, 1)
    IN  IF Len(s) >= 1 /\ s[1] = "F" /\ d >= 3
        THEN SubSeq(s, d + 1, Len(s))
        ELSE s

\* s.replace(/\$.*/, ""), line 64
StripDollarSuffix(s) ==
    LET d == IndexOfDollar(s, 1)
    IN  IF d = 0 THEN s ELSE SubSeq(s, 1, d - 1)

symbolClean(symbol) == StripDollarSuffix(StripFilePrefix(symbol))

RECURSIVE parseNoiFrom(_, _, _, _)
parseNoiFrom(lines, i, result, usedAddr) ==
    IF i > Len(lines) THEN result
    ELSE
        LET fullAddr == lines[i].fullAddr
            addr == fullAddr % AddrMask
            bank == IF addr < LowAreaEnd THEN 0
                    ELSE (fullAddr \div AddrMask) % BankMask
            key == <<bank, addr>>
        IN  IF key \notin usedAddr
            THEN parseNoiFrom(lines, i + 1,
                     Append(result, [symbol |-> symbolClean(lines[i].symbol),
                                     addr |-> addr, bank |-> bank]),
                     usedAddr \cup {key})
            ELSE parseNoiFrom(lines, i + 1, result, usedAddr)

parseNoi(lines) == parseNoiFrom(lines, 1, <<>>, {})

-----------------------------------------------------------------------------
(* generateFunctionRegions, lines 79-105 *)

\* the keys of bankGroups in insertion order (a Map iterates in that order)
RECURSIVE BankOrder(_, _, _)
BankOrder(lookup, i, acc) ==
    IF i > Len(lookup) THEN acc
    ELSE IF \E k \in 1..Len(acc) : acc[k] = lookup[i].bank
         THEN BankOrder(lookup, i + 1, acc)
         ELSE BankOrder(lookup, i + 1, Append(acc, lookup[i].bank))

\* bankGroups.get(bank), lines 83-89
BankGroup(lookup, bank) == SelectSeq(lookup, LAMBDA fn : fn.bank = bank)

\* insert x after the last element whose addr is not above x.addr (stable)
RECURSIVE InsertByAddr(_, _)
InsertByAddr(sorted, x) ==
    IF sorted = <<>> THEN <<x>>
    ELSE IF sorted[Len(sorted)].addr <= x.addr THEN Append(sorted, x)
    ELSE Append(InsertByAddr(SubSeq(sorted, 1, Len(sorted) - 1), x),
                sorted[Len(sorted)])

RECURSIVE SortFrom(_, _, _)
SortFrom(symbols, i, acc) ==
    IF i > Len(symbols) THEN acc
    ELSE SortFrom(symbols, i + 1, InsertByAddr(acc, symbols[i]))

\* a variant that leaves the symbols in file order
SortUnsorted(symbols) == symbols

\* symbols.sort((a, b) => a.addr - b.addr), line 96 (Array.prototype.sort is stable)
SortByAddr(symbols) == SortFrom(symbols, 1, <<>>)

\* line 95
AddrMax(bank) == IF bank = 0 THEN Bank0Max ELSE BankNMax

\* a variant that ends a region on the next symbol's address
RegionEndOverlapping(addrMax, nextAddr) == Min(addrMax, nextAddr)

\* Math.min(addrMax, sorted[i + 1].addr - 1), line 98
RegionEnd(addrMax, nextAddr) == Min(addrMax, nextAddr - 1)

\* lines 94-101 for one bank
BankRegions(lookup, bank) ==
    LET addrMax == AddrMax(bank)
        sorted == SortByAddr(BankGroup(lookup, bank))
    IN  [i \in 1..Len(sorted) |->
            [symbol |-> sorted[i].symbol,
             addr |-> sorted[i].addr,
             bank |-> sorted[i].bank,
             end |-> IF i < Len(sorted)
                     THEN RegionEnd(addrMax, sorted[i + 1].addr)
                     ELSE addrMax]]

RECURSIVE ConcatBanks(_, _, _)
ConcatBanks(lookup, order, i) ==
    IF i > Len(order) THEN <<>>
    ELSE BankRegions(lookup, order[i]) \o ConcatBanks(lookup, order, i + 1)

generateFunctionRegions(lookup) ==
    ConcatBanks(lookup, BankOrder(lookup, 1, <<>>), 1)

-----------------------------------------------------------------------------
(* module load, lines 139-159 *)

\* lines 147-152
BuildRegionsByBank(regions) ==
    [b \in {regions[i].bank : i \in 1..Len(regions)} |->
        SelectSeq(regions, LAMBDA r : r.bank = b)]

\* lines 154-156: a later record of the same name overwrites the index
LastIndexOf(lookup, symbol) ==
    CHOOSE i \in 1..Len(lookup) :
        /\ lookup[i].symbol = symbol
        /\ \A j \in (i + 1)..Len(lookup) : lookup[j].symbol # symbol

\* the index an earlier-record-wins table would hold
FirstIndexOf(lookup, symbol) ==
    CHOOSE i \in 1..Len(lookup) :
        /\ lookup[i].symbol = symbol
        /\ \A j \in 1..(i - 1) : lookup[j].symbol # symbol

\* noiIndex is a plain object ({}, line 135): the key "__proto__" names its
\* prototype accessor, so the assignment noiIndex["__proto__"] = i stores
\* nothing (the setter ignores a number) and no own key is made
ProtoKey == <<"_", "_", "p", "r", "o", "t", "o", "_", "_">>

BuildNoiIndex(lookup) ==
    [s \in {lookup[i].symbol : i \in 1..Len(lookup)} \ {ProtoKey} |->
        LastIndexOf(lookup, s) - 1]

\* the read noiIndex[symbol] of lines 301 and 327, for a symbol of noiLookup:
\* the own key's value, and for "__proto__" the getter's Object.prototype
NoiIndexOf(symbol) ==
    IF symbol = ProtoKey THEN ObjectPrototype ELSE noiIndex[symbol]

-----------------------------------------------------------------------------
(* getCurrentFunctionRegion, lines 185-200 *)

InRegion(fn, p) == p >= fn.addr /\ p <= fn.end

\* bankRegions.find((fn) => pc >= fn.addr && pc <= fn.end), line 199
RECURSIVE FindRegion(_, _, _)
FindRegion(bankRegions, p, i) ==
    IF i > Len(bankRegions) THEN Undefined
    ELSE IF InRegion(bankRegions[i], p) THEN bankRegions[i]
    ELSE FindRegion(bankRegions, p, i + 1)

\* lines 195-199: the search that ignores the cached region
SearchRegion(p, b) ==
    LET targetBank == IF p < LowAreaEnd THEN 0 ELSE b
    IN  IF targetBank \notin DOMAIN regionsByBank THEN Undefined
        ELSE FindRegion(regionsByBank[targetBank], p, 1)

\* a variant that does not compare the banks
CacheHitNoBank(fn, p, b) ==
    fn # Undefined /\ InRegion(fn, p)

\* lines 187-194: does the cached region still hold (pc, bank)?
CacheHit(fn, p, b) ==
    /\ fn # Undefined
    /\ InRegion(fn, p)
    /\ (p < LowAreaEnd \/ fn.bank = b)

getCurrentFunctionRegion(p, b) ==
    IF CacheHit(currentFnRegion, p, b) THEN currentFnRegion
    ELSE SearchRegion(p, b)

-----------------------------------------------------------------------------
(* pushFrame, fnStackContains, popFrame: lines 271-339 *)

\* fn.symbol.startsWith("INT_"), line 272
IsInterruptSymbol(symbol) ==
    Len(symbol) >= 4 /\ SubSeq(symbol, 1, 4) = <<"I", "N", "T", "_">>

\* lines 276-286: the parent frame is marked (openPrinted is set whether or
\* not the line is printed)
MarkParent(stack) ==
    IF stack = <<>> THEN stack
    ELSE [stack EXCEPT ![Len(stack)].childPushed = TRUE,
                       ![Len(stack)].openPrinted = TRUE]

pushFrame(fn, clockNow) ==
    [fnStack |-> Append(MarkParent(fnStack),
                    [symbol |-> fn.symbol,
                     addr |-> fn.addr,
                     clock |-> clockNow,
                     childPushed |-> FALSE,
                     openPrinted |-> FALSE,
                     indent |-> Len(fnStack),
                     prefix |-> IF IsInterruptSymbol(fn.symbol)
                                THEN "[INT]" ELSE "-"]),
     events |-> Append(events,
                    [type |-> "O", at |-> clockNow,
                     frame |-> NoiIndexOf(fn.symbol)])]

\* a variant that takes every landing inside a region for a return
fnStackContainsAlways(searchFn) ==
    searchFn.symbol = searchFn.symbol

fnStackContains(searchFn) ==
    \E i \in 1..Len(fnStack) : fnStack[i].symbol = searchFn.symbol

\* the while loop of lines 317-338 on (stack, evs)
RECURSIVE popFrameLoop(_, _, _, _)
popFrameLoop(fn, clockNow, stack, evs) ==
    IF Len(stack) > 0 /\ stack[Len(stack)].symbol # fn.symbol
    THEN LET poppedFn == stack[Len(stack)]
         IN  popFrameLoop(fn, clockNow,
                 SubSeq(stack, 1, Len(stack) - 1),
                 Append(evs, [type |-> "C", at |-> clockNow,
                              frame |-> NoiIndexOf(poppedFn.symbol),
                              start |-> poppedFn.clock]))
    ELSE [fnStack |-> stack, events |-> evs]

\* a variant that pops one frame at most (an `if` for the `while`)
popFrameOnce(fn, clockNow) ==
    IF Len(fnStack) > 0 /\ fnStack[Len(fnStack)].symbol # fn.symbol
    THEN LET poppedFn == fnStack[Len(fnStack)]
         IN  [fnStack |-> SubSeq(fnStack, 1, Len(fnStack) - 1),
              events |-> Append(events, [type |-> "C", at |-> clockNow,
                                         frame |-> NoiIndexOf(poppedFn.symbol),
                                         start |-> poppedFn.clock])]
    ELSE [fnStack |-> fnStack, events |-> events]

\* a variant that stamps a Close with the time its frame was opened
popFrameAtOpen(fn, clockNow) ==
    LET r == popFrameLoop(fn, clockNow, fnStack, events)
    IN  [fnStack |-> r.fnStack,
         events |-> [k \in 1..Len(r.events) |->
                        IF k > Len(events)
                        THEN [r.events[k] EXCEPT !.at = r.events[k].start]
                        ELSE r.events[k]]]

\* a variant of the return that also pops the frame it returns to
popFrameThrough(fn, clockNow) ==
    LET r == popFrameLoop(fn, clockNow, fnStack, events)
    IN  IF r.fnStack = <<>> THEN r
        ELSE LET poppedFn == r.fnStack[Len(r.fnStack)]
             IN  [fnStack |-> SubSeq(r.fnStack, 1, Len(r.fnStack) - 1),
                  events |-> Append(r.events,
                                [type |-> "C", at |-> clockNow,
                                 frame |-> NoiIndexOf(poppedFn.symbol),
                                 start |-> poppedFn.clock])]

popFrame(fn, clockNow) == popFrameLoop(fn, clockNow, fnStack, events)

-----------------------------------------------------------------------------
(* gb.cpu.onAfterInstruction, lines 212-265 *)

Unchanged ==
    [currentFnRegion |-> currentFnRegion, fnStack |-> fnStack, events |-> events]

WithRegion(newFn, r) ==
    [currentFnRegion |-> newFn, fnStack |-> r.fnStack, events |-> r.events]

\* a variant that takes a region already on the stack for a return before
\* it looks at the entry address
onAfterInstructionReturnFirst(p, b, clockNow) ==
    IF p < InterruptArea THEN Unchanged
    ELSE
        LET newFn == getCurrentFunctionRegion(p, b)
        IN  IF newFn = Undefined \/ newFn = currentFnRegion
            THEN Unchanged
            ELSE IF fnStackContains(newFn)
            THEN WithRegion(newFn, popFrame(newFn, clockNow))
            ELSE WithRegion(newFn, pushFrame(newFn, clockNow))

onAfterInstruction(p, b, clockNow) ==
    IF p < InterruptArea THEN Unchanged                         \* 215-220
    ELSE
        LET newFn == getCurrentFunctionRegion(p, b)             \* 224
        IN  IF newFn = Undefined \/ newFn = currentFnRegion     \* 241-243
            THEN Unchanged
            ELSE IF p = newFn.addr                              \* 246-250
            THEN WithRegion(newFn, pushFrame(newFn, clockNow))
            ELSE IF fnStackContains(newFn)                      \* 253-261
            THEN WithRegion(newFn, popFrame(newFn, clockNow))
            ELSE WithRegion(newFn, pushFrame(newFn, clockNow))

-----------------------------------------------------------------------------
(* end of run, lines 482-487 *)

\* Math.max(...events.filter((e) => e.type === "C").map((e) => e.at))
RECURSIVE MaxCloseAt(_, _, _)
MaxCloseAt(evs, i, acc) ==
    IF i > Len(evs) THEN acc
    ELSE IF evs[i].type = "C" THEN MaxCloseAt(evs, i + 1, Max(acc, evs[i].at))
    ELSE MaxCloseAt(evs, i + 1, acc)

-----------------------------------------------------------------------------
(* eventsBetween, lines 353-385 *)

\* a variant that pairs a Close with the oldest open time of its frame index
ShiftOpenTime(times) ==
    [startTime |-> times[1], rest |-> Tail(times)]

\* line 366, stack[frame].pop(): the most recent open time of the frame index
PopOpenTime(times) ==
    [startTime |-> times[Len(times)],
     rest |-> SubSeq(times, 1, Len(times) - 1)]

\* lines 358-370: st.stack maps a frame index to its list of open times,
\* st.activeEvents are the matched O/C pairs
RECURSIVE MatchPairs(_, _, _)
MatchPairs(evs, i, st) ==
    IF i > Len(evs) THEN st
    ELSE
        LET e == evs[i]
            has == e.frame \in DOMAIN st.stack
        IN  IF e.type = "O"
            THEN MatchPairs(evs, i + 1,
                    [st EXCEPT !.stack =
                        IF has THEN [st.stack EXCEPT ![e.frame] = Append(@, e.at)]
                        ELSE (e.frame :> <<e.at>>) @@ st.stack])
            ELSE IF has /\ Len(st.stack[e.frame]) > 0
            THEN LET popped == PopOpenTime(st.stack[e.frame])
                 IN  MatchPairs(evs, i + 1,
                        [stack |-> [st.stack EXCEPT ![e.frame] = popped.rest],
                         activeEvents |-> Append(st.activeEvents,
                                        [start |-> popped.startTime,
                                         end |-> e.at, frame |-> e.frame])])
            ELSE MatchPairs(evs, i + 1, st)

\* line 378, parseInt(frame, 10) of a key of `stack`: an index comes back as
\* it was, the key "[object Object]" that Object.prototype became gives NaN
ParseIntKey(frame) == IF frame = ObjectPrototype THEN NaN ELSE frame

\* lines 373-381: Object.entries lists the integer keys in ascending order
\* and then the string key "[object Object]"
RECURSIVE OngoingEvents(_, _)
OngoingEvents(stack, keys) ==
    IF keys = {} THEN <<>>
    ELSE LET indexes == keys \ {ObjectPrototype}
             frame == IF indexes = {} THEN ObjectPrototype
                      ELSE CHOOSE k \in indexes :
                                \A other \in indexes : k <= other
         IN  [i \in 1..Len(stack[frame]) |->
                 [start |-> stack[frame][i], end |-> Infinity,
                  frame |-> ParseIntKey(frame)]]
             \o OngoingEvents(stack, keys \ {frame})

\* line 384
Overlaps(ev, start, end) == ev.end > start /\ ev.start < end

AllActiveEvents(evs) ==
    LET st == MatchPairs(evs, 1, [stack |-> <<>>, activeEvents |-> <<>>])
    IN  st.activeEvents \o OngoingEvents(st.stack, DOMAIN st.stack)

\* a variant that forgets the opens that are still ongoing
eventsBetweenClosedOnly(evs, start, end) ==
    SelectSeq(MatchPairs(evs, 1, [stack |-> <<>>, activeEvents |-> <<>>]).activeEvents,
              LAMBDA ev : Overlaps(ev, start, end))

eventsBetween(evs, start, end) ==
    SelectSeq(AllActiveEvents(evs), LAMBDA ev : Overlaps(ev, start, end))

-----------------------------------------------------------------------------
(* logFrameReport, lines 396-414: the sorted frameStats, or the TypeError
   of line 402 *)

\* line 403
Duration(e, start, end) == Min(e.end, end) - Max(e.start, start)

\* speedscope.shared.frames[e.frame] of line 401 is an element of the frame
\* table (line 170: one frame per noiLookup record) when e.frame is an index
\* of it, and undefined otherwise
FrameDefined(frame) == frame \in 0..(Len(noiLookup) - 1)

\* speedscope.shared.frames[e.frame].name, lines 170 and 401-402
FrameName(frame) == noiLookup[frame + 1].symbol

\* line 402 reads .name of undefined: TypeError
ThrowsTypeError(active) ==
    \E i \in 1..Len(active) : ~FrameDefined(active[i].frame)

\* lines 400-410: frameMap in insertion order
RECURSIVE SumByName(_, _, _, _, _)
SumByName(active, i, start, end, frameMap) ==
    IF i > Len(active) THEN frameMap
    ELSE
        LET name == FrameName(active[i].frame)
            duration == Duration(active[i], start, end)
            at == {k \in 1..Len(frameMap) : frameMap[k].name = name}
        IN  IF at = {}
            THEN SumByName(active, i + 1, start, end,
                    Append(frameMap, [name |-> name, duration |-> duration]))
            ELSE SumByName(active, i + 1, start, end,
                    [frameMap EXCEPT ![CHOOSE k \in at : TRUE].duration =
                        @ + duration])

\* lines 412-414: sort((a, b) => b.duration - a.duration), stable
RECURSIVE InsertByDuration(_, _)
InsertByDuration(sorted, x) ==
    IF sorted = <<>> THEN <<x>>
    ELSE IF sorted[Len(sorted)].duration >= x.duration THEN Append(sorted, x)
    ELSE Append(InsertByDuration(SubSeq(sorted, 1, Len(sorted) - 1), x),
                sorted[Len(sorted)])

RECURSIVE SortByDuration(_, _, _)
SortByDuration(stats, i, acc) ==
    IF i > Len(stats) THEN acc
    ELSE SortByDuration(stats, i + 1, InsertByDuration(acc, stats[i]))

\* lines 398-414 on the events eventsBetween returned
FrameStats(active, start, end) ==
    SortByDuration(SumByName(active, 1, start, end, <<>>), 1, <<>>)

logFrameReport(start, end) ==
    LET active == eventsBetween(events, start, end)
    IN  IF ThrowsTypeError(active)
        THEN [threw |-> TRUE, frameStats |-> <<>>]
        ELSE [threw |-> FALSE, frameStats |-> FrameStats(active, start, end)]

-----------------------------------------------------------------------------
(* Inputs *)

\* raw symbols of .noi DEF lines
RawMain == <<"F", "x", "$", "m", "a", "i", "n", "$", "0">>
RawHelper == <<"F", "x", "$", "h", "e", "l", "p", "e", "r", "$", "0">>
RawF == <<"_", "f">>
RawGa == <<"F", "a", "$", "g", "$", "0">>
RawGb == <<"F", "b", "$", "g", "$", "0">>
RawH == <<"_", "h">>
RawV == <<"_", "v">>
RawA == <<"_", "a">>
RawProto == <<"_", "_", "p", "r", "o", "t", "o", "_", "_">>

SymMain == <<"m", "a", "i", "n">>
SymHelper == <<"h", "e", "l", "p", "e", "r">>
SymG == <<"g">>

Line(symbol, fullAddr) == [symbol |-> symbol, fullAddr |-> fullAddr]

\* the end-to-end scenario: main at 0x150, helper at 0x200, both in bank 0
ScenarioNoi == << Line(RawMain, 336), Line(RawHelper, 512) >>

\* two static functions g (files a and b: bank 0 at 0x150, bank 1 at 0x4000),
\* _f at 0x200, and a RAM variable _v at 0xC000
SharedNoi == << Line(RawGa, 336), Line(RawF, 512), Line(RawGb, 81920),
                Line(RawV, 49152) >>

\* _f at 0x200, _h at 0x4000 of bank 1, g at 0x4000 of bank 2, and a line
\* whose address 0x1_0200 falls on _f's key (bank 0, 0x200)
BankedNoi == << Line(RawF, 512), Line(RawH, 81920), Line(RawGa, 147456),
                Line(RawV, 66048) >>

\* _a at 0x150 and a function named __proto__ at 0x200
ProtoNoi == << Line(RawA, 336), Line(RawProto, 512) >>

NoiFiles == { <<>>, ScenarioNoi, SharedNoi, BankedNoi, ProtoNoi }

\* program counters: the vector area, starts and middles of the regions
\* above, RAM
PCs == {256, 336, 337, 512, 513, 16384, 16385, 49152}
Banks == {0, 1, 2}
TimeDeltas == {0, 10}

\* window bounds the report is asked for
WindowPoints == {0, 5, 10, 15, 20, 25}

ScenarioStream ==
    << [pc |-> 336, bank |-> 0, time |-> 0],
       [pc |-> 512, bank |-> 0, time |-> 10],
       [pc |-> 336, bank |-> 0, time |-> 20] >>

Off == Len(ScenarioStream) + 1

\* all .noi files of at most MaxLines lines over these symbols and addresses
RegionAddrs == {336, 512, 66048, 81920, 82176, 147456, 49152, 114688, 65535}
RegionLines == {Line(s, a) : s \in {RawF, RawGa}, a \in RegionAddrs}

RECURSIVE SeqsUpTo(_, _)
SeqsUpTo(S, n) ==
    IF n = 0 THEN {<<>>}
    ELSE LET shorter == SeqsUpTo(S, n - 1)
         IN  shorter \cup {Append(q, x) : q \in shorter, x \in S}

-----------------------------------------------------------------------------
(* The program *)

InitWith(files) ==
    /\ noiData \in files
    /\ noiLookup = <<>>
    /\ functionRegions = <<>>
    /\ regionsByBank = <<>>
    /\ noiIndex = <<>>
    /\ currentFnRegion = Undefined
    /\ fnStack = <<>>
    /\ events = <<>>
    /\ endValue = 0
    /\ clock = 0
    /\ cpuPc = 256
    /\ romBankNumber = 1
    /\ phase = "boot"
    /\ frameStartTime = 0
    /\ mainAt = "loop"
    /\ nObs = 0
    /\ scenarioPos = 0

Init == InitWith(NoiFiles)

InitRegions == InitWith(SeqsUpTo(RegionLines, MaxLines))

\* lines 139-159
Load ==
    /\ phase = "boot"
    /\ noiLookup' = parseNoi(noiData)
    /\ functionRegions' = generateFunctionRegions(noiLookup')
    /\ regionsByBank' = BuildRegionsByBank(functionRegions')
    /\ noiIndex' = BuildNoiIndex(noiLookup')
    /\ phase' = "run"
    /\ UNCHANGED <<noiData, currentFnRegion, fnStack, events, endValue, clock,
                   cpuPc, romBankNumber, frameStartTime, mainAt, nObs,
                   scenarioPos>>

\* lines 446-459: one more iteration of the frame loop begins; it takes its
\* frameStartTime and calls gb.cpu.frame(). The model starts no frame once
\* the bound on the observations is reached.
StartFrame ==
    /\ phase = "run"
    /\ mainAt = "loop"
    /\ nObs < MaxObs
    /\ frameStartTime' = clock
    /\ mainAt' = "frame"
    /\ UNCHANGED <<noiData, noiLookup, functionRegions, regionsByBank,
                   noiIndex, currentFnRegion, fnStack, events, endValue,
                   clock, cpuPc, romBankNumber, phase, nObs, scenarioPos>>

\* inside gb.cpu.frame() (line 459) the emulator retires one instruction:
\* the clock advances and the callback of line 212 runs with the registers'
\* pc and bank. The emulator is paused (line 341): it retires instructions
\* only while main is inside gb.cpu.frame().
Observe ==
    /\ phase = "run"
    /\ mainAt = "frame"
    /\ nObs < MaxObs
    /\ \E newPc \in PCs, newBank \in Banks, dt \in TimeDeltas :
        /\ clock + dt <= MaxTime
        /\ clock' = clock + dt
        /\ cpuPc' = newPc
        /\ romBankNumber' = newBank
        /\ LET r == onAfterInstruction(newPc, newBank, clock')
           IN  /\ currentFnRegion' = r.currentFnRegion
               /\ fnStack' = r.fnStack
               /\ events' = r.events
        /\ scenarioPos' =
               IF /\ scenarioPos < Len(ScenarioStream)
                  /\ noiData = ScenarioNoi
                  /\ [pc |-> newPc, bank |-> newBank, time |-> clock'] =
                         ScenarioStream[scenarioPos + 1]
               THEN scenarioPos + 1
               ELSE Off
    /\ nObs' = nObs + 1
    /\ UNCHANGED <<noiData, noiLookup, functionRegions, regionsByBank,
                   noiIndex, endValue, phase, frameStartTime, mainAt>>

\* line 460: gb.cpu.frame() has returned and framesElapsed++ may move
\* getGBTime() on. With --export main then awaits saveFramePng (lines 465,
\* 476) before it goes on to the report.
FrameElapsed ==
    /\ phase = "run"
    /\ mainAt = "frame"
    /\ \E dt \in TimeDeltas :
        /\ clock + dt <= MaxTime
        /\ clock' = clock + dt
    /\ mainAt' = "report"
    /\ UNCHANGED <<noiData, noiLookup, functionRegions, regionsByBank,
                   noiIndex, currentFnRegion, fnStack, events, endValue,
                   cpuPc, romBankNumber, phase, frameStartTime, nObs,
                   scenarioPos>>

\* line 479: logFrameReport(frameStartTime, getGBTime(), ...). When it
\* throws, main() rejects (line 505 logs the error) and nothing of lines
\* 482-503 runs; otherwise main is back at the head of the loop.
FrameReport ==
    /\ phase = "run"
    /\ mainAt = "report"
    /\ IF logFrameReport(frameStartTime, clock).threw
       THEN phase' = "failed" /\ mainAt' = mainAt
       ELSE phase' = phase /\ mainAt' = "loop"
    /\ UNCHANGED <<noiData, noiLookup, functionRegions, regionsByBank,
                   noiIndex, currentFnRegion, fnStack, events, endValue,
                   clock, cpuPc, romBankNumber, frameStartTime, nObs,
                   scenarioPos>>

\* lines 482-487, after the last frame of the loop (or with --frames 0):
\* popFrame() with no argument, then endValue; popFrame reads the time, which
\* is the time the last report ended at
Finish ==
    /\ phase = "run"
    /\ mainAt = "loop"
    /\ LET r == popFrame(Undefined, clock)
       IN  /\ fnStack' = r.fnStack
           /\ events' = r.events
           /\ endValue' = MaxCloseAt(r.events, 1, NegInfinity)
    /\ phase' = "done"
    /\ UNCHANGED <<noiData, noiLookup, functionRegions, regionsByBank,
                   noiIndex, currentFnRegion, clock, cpuPc, romBankNumber,
                   frameStartTime, mainAt, nObs, scenarioPos>>

Next == Load \/ StartFrame \/ Observe \/ FrameElapsed \/ FrameReport \/ Finish

Spec == Init /\ [][Next]_vars

NextRegions == Load

SpecRegions == InitRegions /\ [][NextRegions]_vars

-----------------------------------------------------------------------------
(* Properties *)

OpenEv(at, frame) == [type |-> "O", at |-> at, frame |-> frame]
CloseEv(at, frame, start) ==
    [type |-> "C", at |-> at, frame |-> frame, start |-> start]

StackSymbols == [i \in 1..Len(fnStack) |-> fnStack[i].symbol]
StackClocks == [i \in 1..Len(fnStack) |-> fnStack[i].clock]

\* the run has observed exactly the scenario's stream and has not ended
ScenarioDone == scenarioPos = Len(ScenarioStream) /\ phase = "run"

\* the duration a report gives a name, 0 when the name is absent
DurationOf(report, name) ==
    IF \E k \in 1..Len(report) : report[k].name = name
    THEN (CHOOSE r \in {report[k] : k \in 1..Len(report)} : r.name = name).duration
    ELSE 0

\* C1 as stated: after the scenario's three observations the events are
\* Open main@0, Open helper@10, Close helper@20 and only main@0 is on the stack.
C1_ScenarioAsStated ==
    ScenarioDone =>
        /\ events = << OpenEv(0, 0), OpenEv(10, 1), CloseEv(20, 1, 10) >>
        /\ StackSymbols = << SymMain >>
        /\ StackClocks = << 0 >>

\* C1 amended: the third observation is at main's start address 0x150, so it
\* is taken for a call: the events are Open main@0, Open helper@10,
\* Open main@20 and the stack holds main@0, helper@10, main@20.
C1_ScenarioTrace ==
    ScenarioDone =>
        /\ events = << OpenEv(0, 0), OpenEv(10, 1), OpenEv(20, 0) >>
        /\ StackSymbols = << SymMain, SymHelper, SymMain >>
        /\ StackClocks = << 0, 10, 20 >>
        /\ currentFnRegion.symbol = SymMain

C1_Witness == ScenarioDone /\ Len(events) = 3

\* C2 as stated: the report of window [0,20) on the scenario's trace gives
\* helper 10 and main 10.
C2_ReportAsStated ==
    ScenarioDone =>
        /\ DurationOf(logFrameReport(0, 20).frameStats, SymHelper) = 10
        /\ DurationOf(logFrameReport(0, 20).frameStats, SymMain) = 10

\* C2 amended: the report of window [0,20) on the scenario's trace lists main
\* with 20 (it is open over the whole window) and then helper with 10.
C2_ScenarioReport ==
    ScenarioDone =>
        logFrameReport(0, 20).frameStats =
            << [name |-> SymMain, duration |-> 20],
               [name |-> SymHelper, duration |-> 10] >>

C2_Witness ==
    /\ ScenarioDone
    /\ Len(logFrameReport(0, 20).frameStats) = 2

\* a step of Observe (the callback ran on the registers' new values)
ObserveStep == phase = "run" /\ nObs' = nObs + 1

\* C3 as stated (recursion fidelity): when an F frame is on top of the stack
\* and F is the current region, an observation that lands exactly on F's start
\* address pushes a second frame for F and records a second Open for F.
C3_DirectRecursionPushes ==
    [][ ( /\ ObserveStep
          /\ currentFnRegion # Undefined
          /\ fnStack # <<>>
          /\ fnStack[Len(fnStack)].symbol = currentFnRegion.symbol
          /\ cpuPc' = currentFnRegion.addr
          /\ cpuPc' >= InterruptArea
          /\ (cpuPc' < LowAreaEnd \/ romBankNumber' = currentFnRegion.bank) )
        => ( /\ Len(fnStack') = Len(fnStack) + 1
             /\ fnStack'[Len(fnStack')].symbol = currentFnRegion.symbol
             /\ events' = Append(events,
                    OpenEv(clock', NoiIndexOf(currentFnRegion.symbol))) )
      ]_vars

\* the recorded events replayed as a stack of open occurrences: an Open pushes
\* (frame, at); a Close must find the stack non-empty and its top must be the
\* occurrence it names (same frame, opened at the Close's start value)
RECURSIVE Replay(_, _, _)
Replay(evs, i, st) ==
    IF i > Len(evs) THEN st
    ELSE
        LET e == evs[i]
            n == Len(st.open)
        IN  IF e.type = "O"
            THEN Replay(evs, i + 1,
                    [st EXCEPT !.open = Append(@, [frame |-> e.frame, at |-> e.at])])
            ELSE IF n > 0 /\ st.open[n].frame = e.frame /\ st.open[n].at = e.start
            THEN Replay(evs, i + 1, [st EXCEPT !.open = SubSeq(@, 1, n - 1)])
            ELSE Replay(evs, i + 1, [st EXCEPT !.ok = FALSE])

Replayed == Replay(events, 1, [ok |-> TRUE, open |-> <<>>])

CountType(type) == Cardinality({i \in 1..Len(events) : events[i].type = type})

\* C4 (balanced trace): in every prefix of the recorded events each Close
\* closes the most recently opened still-unclosed occurrence, and after the
\* end-of-run forced close there are as many Open as Close events and the
\* stack is empty.
C4_BalancedTrace ==
    /\ Replayed.ok
    /\ phase = "done" =>
        /\ CountType("O") = CountType("C")
        /\ fnStack = <<>>
        /\ Replayed.open = <<>>

\* a finished run whose forced close had to close three frames
C4_Witness ==
    /\ phase = "done"
    /\ Len(events) >= 6
    /\ events[Len(events)].type = "C"
    /\ events[Len(events) - 1].type = "C"
    /\ events[Len(events) - 2].type = "C"
    /\ events[Len(events) - 3].type = "O"

Names == {noiLookup[i].symbol : i \in 1..Len(noiLookup)}

\* the windows a report is asked for
Windows == {w \in WindowPoints \X WindowPoints : w[1] <= w[2]}

\* every window has a report: logFrameReport returns for it
EveryWindowReported ==
    \A w \in Windows : ~logFrameReport(w[1], w[2]).threw

\* the reports that are produced are additive over a split of the window
AdditiveReports ==
    LET \* every window's report, computed once per state
        table == [w \in Windows |->
                     LET report == logFrameReport(w[1], w[2])
                     IN  [threw |-> report.threw,
                          duration |->
                              [name \in Names |->
                                  DurationOf(report.frameStats, name)] @@ <<>>]]
                 @@ <<>>
    IN  \A a \in WindowPoints, m \in WindowPoints, b \in WindowPoints :
            (/\ a <= m /\ m <= b
             /\ ~table[<<a, b>>].threw
             /\ ~table[<<a, m>>].threw
             /\ ~table[<<m, b>>].threw) =>
                \A name \in Names :
                    table[<<a, b>>].duration[name] =
                        table[<<a, m>>].duration[name]
                            + table[<<m, b>>].duration[name]

\* C5 (window additivity): for every recorded event sequence, all window
\* points a <= m <= b and every symbol name, a duration is reported for
\* [a,b), [a,m) and [m,b) (a name absent from a report counting as 0) and the
\* first is the sum of the other two.
C5_WindowAdditivity ==
    EveryWindowReported /\ AdditiveReports

RegionIndexes == 1..Len(functionRegions)

\* some address lies in both [r1.addr, r1.end] and [r2.addr, r2.end]
Intersect(r1, r2) == Max(r1.addr, r2.addr) <= Min(r1.end, r2.end)

\* the addresses at and next to every region boundary
BoundaryAddrs ==
    UNION {{functionRegions[i].addr - 1, functionRegions[i].addr,
            functionRegions[i].addr + 1, functionRegions[i].end,
            functionRegions[i].end + 1} : i \in RegionIndexes}

Owners(b, a) ==
    {i \in RegionIndexes :
        functionRegions[i].bank = b /\ InRegion(functionRegions[i], a)}

\* C6 (region disjointness): two distinct regions of the same bank have
\* address intervals that do not intersect, so an address of a bank belongs to
\* at most one region.
C6_RegionDisjointness ==
    /\ \A i \in RegionIndexes, j \in RegionIndexes :
        (i # j /\ functionRegions[i].bank = functionRegions[j].bank) =>
            ~Intersect(functionRegions[i], functionRegions[j])
    /\ \A b \in DOMAIN regionsByBank, a \in BoundaryAddrs :
        Cardinality(Owners(b, a)) <= 1

\* two regions of a bank that touch, and a third symbol of the bank above
\* the bank's maximum address
C6_Witness ==
    \E i \in RegionIndexes, j \in RegionIndexes, k \in RegionIndexes :
        /\ functionRegions[i].bank = functionRegions[j].bank
        /\ functionRegions[j].bank = functionRegions[k].bank
        /\ functionRegions[i].end + 1 = functionRegions[j].addr
        /\ functionRegions[k].addr > AddrMax(functionRegions[k].bank)

\* C7 as stated: every region has start <= end, also for symbols whose
\* address lies above the bank's maximum address.
C7_StartNotAboveEnd ==
    \A i \in RegionIndexes : functionRegions[i].addr <= functionRegions[i].end

\* C8 as stated: in a bank's list, sorted by start address, each region's end
\* is the next region's start minus one and the last region's end is the
\* bank's maximum address.
C8_EndIsNextStartMinusOne ==
    \A b \in DOMAIN regionsByBank :
        LET list == regionsByBank[b]
        IN  /\ \A i \in 1..(Len(list) - 1) :
                /\ list[i].addr < list[i + 1].addr
                /\ list[i].end = list[i + 1].addr - 1
            /\ list[Len(list)].end = AddrMax(b)

\* C8 amended: in a bank's list, which is sorted by start address, each
\* region's end is the smaller of the bank's maximum address and the next
\* region's start minus one, and the last region's end is the bank's maximum
\* address; hence every address from the bank's first symbol address up to the
\* bank maximum is owned by exactly one region.
C8_RegionOwnership ==
    \A b \in DOMAIN regionsByBank :
        LET list == regionsByBank[b]
        IN  /\ \A i \in 1..(Len(list) - 1) :
                /\ list[i].addr < list[i + 1].addr
                /\ list[i].end = Min(AddrMax(b), list[i + 1].addr - 1)
            /\ list[Len(list)].end = AddrMax(b)
            /\ \A a \in BoundaryAddrs \cup {AddrMax(b)} :
                (list[1].addr <= a /\ a <= AddrMax(b)) =>
                    Cardinality(Owners(b, a)) = 1

\* a bank whose list has a region clamped to the bank maximum because the
\* next symbol lies above it, after a region that ends at its successor
C8_Witness ==
    \E b \in DOMAIN regionsByBank :
        LET list == regionsByBank[b]
        IN  /\ Len(list) = 3
            /\ list[1].end = list[2].addr - 1
            /\ list[2].end = AddrMax(b)
            /\ list[3].addr > AddrMax(b) + 1

\* C9 (lookup is independent of the cached region): for every (pc, bank) the
\* lookup returns what the search without the cache returns, which is the
\* region of bank 0's list that contains pc when pc < 0x4000, else the region
\* of the mapped bank's list that contains pc, or none when there is no such
\* region.
C9_LookupIgnoresCache ==
    \A p \in PCs, b \in Banks :
        LET found == getCurrentFunctionRegion(p, b)
            target == IF p < LowAreaEnd THEN 0 ELSE b
            holding == {i \in RegionIndexes :
                           /\ functionRegions[i].bank = target
                           /\ InRegion(functionRegions[i], p)}
        IN  /\ found = SearchRegion(p, b)
            /\ found = Undefined => holding = {}
            /\ found # Undefined =>
                   \E i \in holding : functionRegions[i] = found

\* the cached region is a banked one, and some pc inside it belongs, under
\* another mapped bank, to another region
C9_Witness ==
    /\ currentFnRegion # Undefined
    /\ currentFnRegion.bank # 0
    /\ \E p \in PCs, b \in Banks :
        /\ InRegion(currentFnRegion, p)
        /\ b # currentFnRegion.bank
        /\ SearchRegion(p, b) # Undefined
        /\ SearchRegion(p, b) # currentFnRegion
    /\ \E p \in PCs : CacheHit(currentFnRegion, p, currentFnRegion.bank)

\* the symbol of the frame the k-th new event of a step belongs to: the frame
\* pushed for an Open, the k-th frame from the top of the old stack for a Close
EventSymbol(k) ==
    IF events'[Len(events) + k].type = "O"
    THEN fnStack'[Len(fnStack')].symbol
    ELSE fnStack[Len(fnStack) - k + 1].symbol

\* C10: the frame reference of every recorded event is the index of the
\* first appearance of the frame's symbol name in noiLookup, also when two
\* records share the name.
C10_FrameIsFirstIndex ==
    [][ \A k \in 1..(Len(events') - Len(events)) :
            events'[Len(events) + k].frame =
                FirstIndexOf(noiLookup, EventSymbol(k)) - 1 ]_vars

-----------------------------------------------------------------------------
(* The finalized profile, lines 482-487 *)

\* startValue of the profile: set to 0 at line 173 and never assigned again
startValue == 0

\* C11: in the finalized profile (after the forced close) endValue is an
\* integer that is not below startValue = 0, also when nothing was recorded.
C11_EndValueNotBelowStart ==
    phase = "done" =>
        /\ endValue # NegInfinity
        /\ endValue # Infinity
        /\ endValue >= startValue

-----------------------------------------------------------------------------
(* One observation: the state before it, the registers it reads (cpuPc',
   romBankNumber', clock') and the state after it *)

\* the region the handler resolves for the observation of this step
ObservedRegion == getCurrentFunctionRegion(cpuPc', romBankNumber')

\* C13: an observation at pc >= 0x150 that resolves to no region while the
\* current region is a known one sets the current region to none and leaves
\* the stack and the events as they are.
C13_LeavingTrackedCode ==
    [][(/\ ObserveStep
        /\ cpuPc' >= InterruptArea
        /\ currentFnRegion # Undefined
        /\ ObservedRegion = Undefined)
       => (/\ currentFnRegion' = Undefined
           /\ fnStack' = fnStack
           /\ events' = events)]_vars

\* the observation of this step lands in a known region other than the
\* current one
EntersRegion ==
    /\ ObserveStep
    /\ cpuPc' >= InterruptArea
    /\ ObservedRegion # Undefined
    /\ ObservedRegion # currentFnRegion

\* the index of the topmost frame of the stack with the symbol, 0 if none
TopmostWith(symbol) ==
    LET S == {i \in 1..Len(fnStack) : fnStack[i].symbol = symbol}
    IN  IF S = {} THEN 0 ELSE CHOOSE i \in S : \A j \in S : j <= i

\* C14: an observation strictly inside a region other than the current one
\* whose symbol is on the stack pops down to the topmost frame with that
\* symbol: that frame and all below it stay as they are, every popped frame
\* gets exactly one Close at the current time (top first), no Open is
\* recorded and the region becomes the current one.
C14_MidRegionReturn ==
    [][(/\ EntersRegion
        /\ cpuPc' # ObservedRegion.addr
        /\ TopmostWith(ObservedRegion.symbol) > 0)
       => LET k == TopmostWith(ObservedRegion.symbol)
              n == Len(fnStack)
          IN  /\ fnStack' = SubSeq(fnStack, 1, k)
              /\ Len(events') = Len(events) + (n - k)
              /\ SubSeq(events', 1, Len(events)) = events
              /\ \A j \in 1..(n - k) :
                    events'[Len(events) + j] =
                        CloseEv(clock', NoiIndexOf(fnStack[n + 1 - j].symbol),
                                fnStack[n + 1 - j].clock)
              /\ currentFnRegion' = ObservedRegion]_vars

\* two frames were closed by a return to a frame that is still open
C14_Witness ==
    /\ phase = "run"
    /\ Len(fnStack) = 1
    /\ Len(events) = 5
    /\ events[4].type = "C" /\ events[5].type = "C"
    /\ events[4].at = clock /\ events[5].at = clock
    /\ cpuPc > fnStack[1].addr
    /\ currentFnRegion.symbol = fnStack[1].symbol

\* the step pushed one frame for the observed region and did nothing else:
\* the frames below the old top are as they were, the old top (if any) is
\* marked as having opened a child, the new top is opened at the current
\* time, the one new event is its Open
PushedOnly ==
    LET n == Len(fnStack)
    IN  /\ Len(fnStack') = n + 1
        /\ \A i \in 1..n : /\ fnStack'[i].symbol = fnStack[i].symbol
                           /\ fnStack'[i].addr = fnStack[i].addr
                           /\ fnStack'[i].clock = fnStack[i].clock
        /\ \A i \in 1..(n - 1) : fnStack'[i] = fnStack[i]
        /\ n > 0 => fnStack'[n].childPushed
        /\ fnStack'[n + 1].symbol = ObservedRegion.symbol
        /\ fnStack'[n + 1].addr = ObservedRegion.addr
        /\ fnStack'[n + 1].clock = clock'
        /\ ~fnStack'[n + 1].childPushed
        /\ events' = Append(events,
                        OpenEv(clock', NoiIndexOf(ObservedRegion.symbol)))
        /\ currentFnRegion' = ObservedRegion

\* C15: an observation exactly on the start address of a region other than
\* the current one pushes exactly one frame opened at the current time,
\* records exactly one Open at that time, marks the previous top as having
\* opened a child, closes nothing and makes the region the current one, also
\* when the symbol is already on the stack.
C15_EntryAtStartIsCall ==
    [][(EntersRegion /\ cpuPc' = ObservedRegion.addr) => PushedOnly]_vars

\* a frame was pushed at its start address while a frame with the same
\* symbol was already on the stack
C15_Witness ==
    /\ phase = "run"
    /\ Len(fnStack) >= 3
    /\ cpuPc = fnStack[Len(fnStack)].addr
    /\ fnStack[Len(fnStack)].clock = clock
    /\ fnStack[Len(fnStack) - 1].childPushed
    /\ \E i \in 1..(Len(fnStack) - 1) :
            fnStack[i].symbol = fnStack[Len(fnStack)].symbol
    /\ events[Len(events)] =
            OpenEv(clock, NoiIndexOf(fnStack[Len(fnStack)].symbol))
    /\ \A k \in 1..Len(events) : events[k].type = "O"

\* C16: an observation strictly inside a region other than the current one
\* whose symbol is not on the stack (the stack may be empty) is a push only:
\* one new frame, one Open, no pop, no Close.
C16_MidRegionWithoutFrame ==
    [][(/\ EntersRegion
        /\ cpuPc' # ObservedRegion.addr
        /\ TopmostWith(ObservedRegion.symbol) = 0)
       => PushedOnly]_vars

\* the first observation landed inside a region with the stack empty and
\* pushed its frame
C16_Witness ==
    /\ phase = "run"
    /\ nObs = 1
    /\ Len(fnStack) = 1
    /\ cpuPc > fnStack[1].addr
    /\ events = << OpenEv(clock, NoiIndexOf(fnStack[1].symbol)) >>
    /\ currentFnRegion.symbol = fnStack[1].symbol

\* the 'at' values of the events never decrease along the sequence
NonDecreasing(evs) ==
    \A k \in 1..(Len(evs) - 1) : evs[k].at <= evs[k + 1].at

\* C17: every step (an observation or the forced close at the end) only
\* appends to the events, leaving the recorded ones as they are and where
\* they are, and with observation times that never decrease (getGBTime is
\* the emulator's cycle count, Observe and Finish only add to the clock) the
\* sequence is non-decreasing in time afterwards.
C17_AppendOnlyInTimeOrder ==
    [][clock' >= clock =>
        /\ Len(events') >= Len(events)
        /\ SubSeq(events', 1, Len(events)) = events
        /\ NonDecreasing(events')]_vars

\* a finished run whose events span more than one time and include frames
\* opened before the time they were closed at
C17_Witness ==
    /\ phase = "done"
    /\ Len(events) >= 4
    /\ events[1].at < events[Len(events)].at
    /\ \E k \in 1..Len(events) :
            events[k].type = "C" /\ events[k].start < events[k].at
    /\ \E k \in 1..Len(events) :
            events[k].type = "O" /\ events[k].at > events[1].at

\* the events replayed as a stack: an Open pushes (frame, at), a Close pops
RECURSIVE ReplayStack(_, _, _)
ReplayStack(evs, i, open) ==
    IF i > Len(evs) THEN open
    ELSE IF evs[i].type = "O"
    THEN ReplayStack(evs, i + 1,
            Append(open, [frame |-> evs[i].frame, at |-> evs[i].at]))
    ELSE ReplayStack(evs, i + 1, SubSeq(open, 1, Len(open) - 1))

\* C18: at any time the events replayed as a stack leave exactly the frames
\* of the tracker's call stack: as many, in the same order, with the same
\* symbols (the name the frame table gives the event's frame reference) and
\* the same open times.
C18_TraceMirrorsStack ==
    LET open == ReplayStack(events, 1, <<>>)
    IN  /\ Len(open) = Len(fnStack)
        /\ \A i \in 1..Len(fnStack) :
            /\ FrameDefined(open[i].frame)
            /\ FrameName(open[i].frame) = fnStack[i].symbol
            /\ open[i].at = fnStack[i].clock

\* the same with a frame reference compared with the reference the tracker
\* reads for the stack frame's symbol
TraceMirrorsStackReferences ==
    LET open == ReplayStack(events, 1, <<>>)
    IN  /\ Len(open) = Len(fnStack)
        /\ \A i \in 1..Len(fnStack) :
            /\ open[i].frame = NoiIndexOf(fnStack[i].symbol)
            /\ open[i].at = fnStack[i].clock

\* the Close events of the trace, in order
CloseEvents == SelectSeq(events, LAMBDA e : e.type = "C")

\* C19: the aggregator pairs every Close with an Open (in the order of the
\* Close events), and the interval it reconstructs by taking the most recent
\* unmatched Open of the same frame index starts at the open time of the
\* frame that was popped, which the Close carries as `start`; it ends at the
\* time of the Close. This includes recursive or same-named occurrences.
C19_ReconstructedIntervals ==
    LET matched == MatchPairs(events, 1,
                        [stack |-> <<>>, activeEvents |-> <<>>]).activeEvents
    IN  /\ Len(matched) = Len(CloseEvents)
        /\ \A k \in 1..Len(CloseEvents) :
            /\ matched[k].frame = CloseEvents[k].frame
            /\ matched[k].start = CloseEvents[k].start
            /\ matched[k].end = CloseEvents[k].at

\* two frames with the same frame index were open at once, opened at
\* different times, and both have been closed
C19_Witness ==
    \E j \in 1..Len(CloseEvents), k \in 1..Len(CloseEvents) :
        /\ j < k
        /\ CloseEvents[j].frame = CloseEvents[k].frame
        /\ CloseEvents[k].start < CloseEvents[j].start
        /\ CloseEvents[j].at = CloseEvents[k].at

\* C20: before the forced close at the end of the run, whenever the current
\* region is set, the stack is not empty and its top frame carries the
\* symbol of that region.
C20_CurrentRegionIsTop ==
    (phase = "run" /\ currentFnRegion # Undefined) =>
        /\ fnStack # <<>>
        /\ fnStack[Len(fnStack)].symbol = currentFnRegion.symbol

\* the current region was set by a return that closed two frames, and the
\* frame returned to is the top of the stack
C20_Witness ==
    /\ phase = "run"
    /\ currentFnRegion # Undefined
    /\ fnStack # <<>>
    /\ fnStack[Len(fnStack)].addr = currentFnRegion.addr
    /\ cpuPc > currentFnRegion.addr
    /\ cpuPc <= currentFnRegion.end
    /\ Len(events) >= 2
    /\ events[Len(events)].type = "C"
    /\ events[Len(events) - 1].type = "C"

====
